---- MODULE Spec2Model ----
(***************************************************************************)
(* Model of AirCraft/app.py: the Streamlit script that loads a flight-     *)
(* operations CSV, filters it, aggregates it, scores maintenance risk per   *)
(* aircraft and recommends a scheduling decision per flight record.         *)
(* One run of the script is one behaviour: pc walks through the script's    *)
(* sections in source order.                                                *)
(***************************************************************************)
EXTENDS Integers, Sequences, FiniteSets

VARIABLES
    csv,                \* the file offered to the script: <<>> or <<[columns, rows]>>
    pc,                 \* the section of the script about to run
    columns,            \* df.columns
    df,                 \* the working frame (rows, in order)
    min_d, max_d,       \* bounds offered by the date widget
    date_range,         \* value returned by st.sidebar.date_input
    aircrafts, selected_aircraft,
    pilots, selected_pilots,
    weather, selected_weather,
    usage_aircraft, usage_time, weather_pct,
    risk_df, schedule_df, counts,
    row, label          \* argument and result of one call of decision()

vars == <<csv, pc, columns, df, min_d, max_d, date_range, aircrafts,
          selected_aircraft, pilots, selected_pilots, weather, selected_weather,
          usage_aircraft, usage_time, weather_pct, risk_df, schedule_df, counts,
          row, label>>

-----------------------------------------------------------------------------
(* Bounds of the model *)

MaxRows == 2            \* rows of a file whose filter columns vary
MaxRiskRows == 3        \* rows of a file whose risk metrics vary
MaxSchedRows == 2       \* rows of a file whose scheduling columns vary
MaxCount == 4           \* rows per (weather, status) cell of a weather file
MaxTs == 2              \* largest timestamp in a file
TicksPerDay == 2        \* timestamps per calendar day
MaxHours == 1           \* largest flight_hours of a row
MaxDowntime == 2        \* largest downtime_days of a row
MaxScore == 100         \* risk scores are kept in hundredths: 0 .. 100

-----------------------------------------------------------------------------
(* Values *)

None == <<>>                    \* Python None for an optional table
Some(x) == <<x>>
NaN == "NaN"                    \* missing value of a text column
NaT == -1                       \* missing timestamp (errors="coerce")
BadDate == -2                   \* a flight_date cell that does not parse
NaNScore == -1                  \* missing risk_score after the left join

\* the ten columns the script reads
REQUIRED == {"flight_date", "aircraft_id", "pilot_id", "weather_condition",
             "flight_status", "flight_hours", "maintenance_flag",
             "downtime_days", "pilot_duty_status", "time_of_day"}

\* Every text value of the model, in Python's string order.
Lex == <<"A1", "A2", "A3", "Assign", "Assign with Caution", "Available",
         "Avoid (High Risk)", "Clear", "Delayed", "Do Not Assign", "Evening",
         "Fly", "Morning", "NaN", "No-Fly", "P1", "P2", "Rain", "Unavailable">>

StrRank(s) == CHOOSE i \in 1..Len(Lex) : Lex[i] = s

Range(s) == {s[i] : i \in 1..Len(s)}

RECURSIVE InsertDesc(_, _, _)
\* insert x into s, which is sorted descending by column f, after its equals
InsertDesc(x, s, f) ==
    IF s = <<>> THEN <<x>>
    ELSE IF x[f] > s[1][f] THEN <<x>> \o s
         ELSE <<s[1]>> \o InsertDesc(x, Tail(s), f)

RECURSIVE SortDesc(_, _)
\* .sort_values(f, ascending=False): rows with equal f keep their order
SortDesc(s, f) ==
    IF s = <<>> THEN <<>>
    ELSE InsertDesc(s[Len(s)], SortDesc(SubSeq(s, 1, Len(s) - 1), f), f)

RECURSIVE SetToSortedSeq(_)
\* sorted(S) for a set of text values
SetToSortedSeq(S) ==
    IF S = {} THEN <<>>
    ELSE LET m == CHOOSE x \in S : \A y \in S : StrRank(x) <= StrRank(y)
         IN <<m>> \o SetToSortedSeq(S \ {m})

RECURSIVE SumSeq(_)
SumSeq(s) == IF s = <<>> THEN 0 ELSE s[1] + SumSeq(Tail(s))

\* values of column col over the rows
Column(d, col) == [i \in 1..Len(d) |-> d[i][col]]

\* sorted(d[col].dropna().unique())
Options(d, col) == SetToSortedSeq({d[i][col] : i \in 1..Len(d)} \ {NaN})

-----------------------------------------------------------------------------
(* LOAD DATA *)

\* pd.to_datetime(..., errors="coerce") on one cell
ToDatetime(c) == IF c >= 0 THEN c ELSE NaT

ReadCsv(f) ==
    IF "flight_date" \in f.columns
    THEN [i \in 1..Len(f.rows) |->
             [f.rows[i] EXCEPT !.flight_date = ToDatetime(@)]]
    ELSE f.rows

LoadData ==
    /\ pc = "load"
    /\ IF csv # None
       THEN /\ df' = ReadCsv(csv[1])
            /\ columns' = csv[1].columns
            /\ pc' = "filters"
       ELSE /\ pc' = "stopped"          \* landing page, st.stop()
            /\ UNCHANGED <<df, columns>>
    /\ UNCHANGED <<csv, min_d, max_d, date_range, aircrafts, selected_aircraft,
                   pilots, selected_pilots, weather, selected_weather,
                   usage_aircraft, usage_time, weather_pct, risk_df,
                   schedule_df, counts, row, label>>

-----------------------------------------------------------------------------
(* FILTERS *)

\* .dt.date / .date(): the calendar day of a timestamp
DateOf(ts) == ts \div TicksPerDay

\* the guard with notna().all() in place of notna().any()
HasDatesAll(cols, d) ==
    /\ "flight_date" \in cols
    /\ d # <<>>
    /\ \A i \in 1..Len(d) : d[i].flight_date # NaT

\* "flight_date" in df.columns and df["flight_date"].notna().any()
HasDates(cols, d) ==
    /\ "flight_date" \in cols
    /\ \E i \in 1..Len(d) : d[i].flight_date # NaT

Stamps(d) == {d[i].flight_date : i \in 1..Len(d)} \ {NaT}

MinDate(d) == DateOf(CHOOSE t \in Stamps(d) : \A u \in Stamps(d) : t <= u)
MaxDate(d) == DateOf(CHOOSE t \in Stamps(d) : \A u \in Stamps(d) : t >= u)

\* the calendar days of the model
Days == 0..DateOf(MaxTs)

\* what st.sidebar.date_input can return: a (start, end) pair of any days, or
\* a 1-tuple while the user has picked only the start
DateChoices ==
    {p \in Days \X Days : p[1] <= p[2]} \cup {<<s>> : s \in Days}

\* the mask, were a row without date to pass it
DateMaskNoNull(d, dr) ==
    IF Len(dr) = 2
    THEN SelectSeq(d, LAMBDA r :
            \/ r.flight_date = NaT
            \/ (DateOf(r.flight_date) >= dr[1] /\ DateOf(r.flight_date) <= dr[2]))
    ELSE d

\* isinstance(date_range, tuple) and len(date_range) == 2, then the mask;
\* a comparison with NaT is False
DateMask(d, dr) ==
    IF Len(dr) = 2
    THEN SelectSeq(d, LAMBDA r :
            /\ r.flight_date # NaT
            /\ DateOf(r.flight_date) >= dr[1]
            /\ DateOf(r.flight_date) <= dr[2])
    ELSE d

\* isin, were a null to count as selected
IsInKeepNull(d, col, selected) ==
    SelectSeq(d, LAMBDA r : r[col] \in selected \cup {NaN})

\* df = df[df[col].isin(selected)]
IsIn(d, col, selected) == SelectSeq(d, LAMBDA r : r[col] \in selected)

\* the date filter applied whenever every flight_date is present
DateStepAll(cols, d, dr) == IF HasDatesAll(cols, d) THEN DateMask(d, dr) ELSE d

\* the FILTERS section run on frame d with the widgets returning dr, sa, sp, sw
DateStep(cols, d, dr) == IF HasDates(cols, d) THEN DateMask(d, dr) ELSE d
CatStep(cols, d, col, sel) == IF col \in cols THEN IsIn(d, col, sel) ELSE d

ApplyFilters(cols, d, dr, sa, sp, sw) ==
    CatStep(cols,
        CatStep(cols,
            CatStep(cols, DateStep(cols, d, dr), "aircraft_id", sa),
            "pilot_id", sp),
        "weather_condition", sw)

Filters ==
    /\ pc = "filters"
    /\ \E dr \in IF HasDates(columns, df)
                 THEN DateChoices ELSE {date_range} :
       LET d1 == DateStep(columns, df, dr)
           oa == IF "aircraft_id" \in columns THEN Options(d1, "aircraft_id")
                 ELSE aircrafts
       IN
       \E sa \in IF "aircraft_id" \in columns THEN SUBSET Range(oa)
                 ELSE {selected_aircraft} :
       LET d2 == CatStep(columns, d1, "aircraft_id", sa)
           op == IF "pilot_id" \in columns THEN Options(d2, "pilot_id")
                 ELSE pilots
       IN
       \E sp \in IF "pilot_id" \in columns THEN SUBSET Range(op)
                 ELSE {selected_pilots} :
       LET d3 == CatStep(columns, d2, "pilot_id", sp)
           ow == IF "weather_condition" \in columns
                 THEN Options(d3, "weather_condition") ELSE weather
       IN
       \E sw \in IF "weather_condition" \in columns THEN SUBSET Range(ow)
                 ELSE {selected_weather} :
          /\ df' = CatStep(columns, d3, "weather_condition", sw)
          /\ date_range' = dr
          /\ IF HasDates(columns, df)
             THEN min_d' = MinDate(df) /\ max_d' = MaxDate(df)
             ELSE UNCHANGED <<min_d, max_d>>
          /\ aircrafts' = oa
          /\ selected_aircraft' = sa
          /\ pilots' = op
          /\ selected_pilots' = sp
          /\ weather' = ow
          /\ selected_weather' = sw
    /\ pc' = "usage"
    /\ UNCHANGED <<csv, columns, usage_aircraft, usage_time, weather_pct,
                   risk_df, schedule_df, counts, row, label>>

-----------------------------------------------------------------------------
(* AIRCRAFT USAGE and TRAINING PEAK TIMES *)

\* the column check of the usage section without flight_hours
USAGE_COLS_LOOSE == {"aircraft_id"}

\* the columns each section tests for
USAGE_COLS == {"aircraft_id", "flight_hours"}
PEAK_COLS == {"time_of_day", "flight_hours"}

\* df.groupby(col)["flight_hours"].sum().reset_index(name="total_flight_hours")
\*   .sort_values("total_flight_hours", ascending=False)
\* groupby sorts the keys and drops the null key.
GroupSum(d, col) ==
    LET keys == Options(d, col)
        grouped == [i \in 1..Len(keys) |->
                      [key |-> keys[i],
                       total_flight_hours |->
                           SumSeq(Column(IsIn(d, col, {keys[i]}), "flight_hours"))]]
    IN SortDesc(grouped, "total_flight_hours")

AircraftUsage ==
    /\ pc = "usage"
    /\ usage_aircraft' = IF USAGE_COLS \subseteq columns
                         THEN Some(GroupSum(df, "aircraft_id"))
                         ELSE usage_aircraft
    /\ pc' = "peak"
    /\ UNCHANGED <<csv, columns, df, min_d, max_d, date_range, aircrafts,
                   selected_aircraft, pilots, selected_pilots, weather,
                   selected_weather, usage_time, weather_pct, risk_df,
                   schedule_df, counts, row, label>>

TrainingPeakTimes ==
    /\ pc = "peak"
    /\ usage_time' = IF PEAK_COLS \subseteq columns
                     THEN Some(GroupSum(df, "time_of_day"))
                     ELSE usage_time
    /\ pc' = "weather"
    /\ UNCHANGED <<csv, columns, df, min_d, max_d, date_range, aircrafts,
                   selected_aircraft, pilots, selected_pilots, weather,
                   selected_weather, usage_aircraft, weather_pct, risk_df,
                   schedule_df, counts, row, label>>

-----------------------------------------------------------------------------
(* WEATHER IMPACT *)

WEATHER_COLS == {"weather_condition", "flight_status"}

\* numpy's round: num/den to the nearest integer, halves to the even one
RoundHalfEven(num, den) ==
    LET q == num \div den
        r == num % den
    IN IF 2 * r < den THEN q
       ELSE IF 2 * r > den THEN q + 1
       ELSE IF q % 2 = 0 THEN q ELSE q + 1

\* df.groupby(["weather_condition", "flight_status"]).size()
\*   .reset_index(name="count"): one row per observed pair, keys sorted
WeatherStatus(d) ==
    LET ws == Options(d, "weather_condition")
        ss == Options(d, "flight_status")
        cell(w, s) == Len(SelectSeq(d, LAMBDA r :
                          r.weather_condition = w /\ r.flight_status = s))
        all == [k \in 1..(Len(ws) * Len(ss)) |->
                  LET w == ws[((k - 1) \div Len(ss)) + 1]
                      s == ss[((k - 1) % Len(ss)) + 1]
                  IN [weather_condition |-> w, flight_status |-> s,
                      count |-> cell(w, s)]]
    IN SelectSeq(all, LAMBDA t : t.count > 0)

\* the sum of count over the whole table instead of per weather condition
TransformSumAll(t, w) == SumSeq(Column(t, "count"))

\* weather_pct.groupby("weather_condition")["count"].transform("sum")
TransformSum(t, w) ==
    SumSeq(Column(SelectSeq(t, LAMBDA u : u.weather_condition = w), "count"))

\* (count / transform("sum") * 100).round(1), kept in tenths of a percent
Percent(count, total) == RoundHalfEven(count * 1000, total)

WeatherPct(d) ==
    LET t == WeatherStatus(d)
    IN [i \in 1..Len(t) |->
          [weather_condition |-> t[i].weather_condition,
           flight_status |-> t[i].flight_status,
           count |-> t[i].count,
           percent |-> Percent(t[i].count,
                               TransformSum(t, t[i].weather_condition))]]

WeatherImpact ==
    /\ pc = "weather"
    /\ weather_pct' = IF WEATHER_COLS \subseteq columns
                      THEN Some(WeatherPct(df))
                      ELSE weather_pct
    /\ pc' = "risk"
    /\ UNCHANGED <<csv, columns, df, min_d, max_d, date_range, aircrafts,
                   selected_aircraft, pilots, selected_pilots, weather,
                   selected_weather, usage_aircraft, usage_time, risk_df,
                   schedule_df, counts, row, label>>

-----------------------------------------------------------------------------
(* MAINTENANCE RISK *)

RISK_COLS == {"aircraft_id", "flight_hours", "maintenance_flag", "downtime_days"}

\* the weights 0.5, 0.3, 0.2, in hundredths
W_HOURS == 50
W_MAINT == 30
W_DOWN == 20

\* A metric is a fraction <<numerator, denominator>> with denominator > 0.
Frac(n) == <<n, 1>>
FLess(a, b) == a[1] * b[2] < b[1] * a[2]
FEq(a, b) == a[1] * b[2] = b[1] * a[2]
FSub(a, b) == <<a[1] * b[2] - b[1] * a[2], a[2] * b[2]>>
FDiv(a, b) == <<a[1] * b[2], a[2] * b[1]>>

SeriesMax(s) == CHOOSE x \in Range(s) : \A y \in Range(s) : ~FLess(x, y)
SeriesMin(s) == CHOOSE x \in Range(s) : \A y \in Range(s) : ~FLess(y, x)

\* minmax_series with "- s.min()" forgotten in the numerator
MinMaxNoShift(s) ==
    IF s # <<>> /\ FEq(SeriesMax(s), SeriesMin(s))
    THEN [i \in 1..Len(s) |-> Frac(0)]
    ELSE [i \in 1..Len(s) |-> FDiv(s[i], FSub(SeriesMax(s), SeriesMin(s)))]

\* minmax_series returning 1.0 for a constant series
MinMaxConstOne(s) ==
    IF s # <<>> /\ FEq(SeriesMax(s), SeriesMin(s))
    THEN [i \in 1..Len(s) |-> Frac(1)]
    ELSE [i \in 1..Len(s) |->
            FDiv(FSub(s[i], SeriesMin(s)), FSub(SeriesMax(s), SeriesMin(s)))]

\* On an empty series max() and min() are NaN and NaN == NaN is False, so
\* the second return runs, over no element.
minmax_series(s) ==
    IF s # <<>> /\ FEq(SeriesMax(s), SeriesMin(s))
    THEN [i \in 1..Len(s) |-> Frac(0)]
    ELSE [i \in 1..Len(s) |->
            FDiv(FSub(s[i], SeriesMin(s)), FSub(SeriesMax(s), SeriesMin(s)))]

\* (0.5*h + 0.3*m + 0.2*d).round(2), in hundredths
RiskScore(h, m, d) ==
    RoundHalfEven(W_HOURS * h[1] * m[2] * d[2] + W_MAINT * m[1] * h[2] * d[2]
                    + W_DOWN * d[1] * h[2] * m[2],
                  h[2] * m[2] * d[2])

\* the keys of df.groupby("aircraft_id"), were the rows not grouped
RowKeys(d) == Column(d, "aircraft_id")

\* the keys of df.groupby("aircraft_id"): distinct, non-null, sorted
GroupKeys(d) == Options(d, "aircraft_id")

\* risk_df: .agg(sum, sum, mean).reset_index(), risk_score, sort_values
RiskTable(d) ==
    LET keys == GroupKeys(d)
        grp(i) == IsIn(d, "aircraft_id", {keys[i]})
        agg == [i \in 1..Len(keys) |->
                  [aircraft_id |-> keys[i],
                   total_flight_hours |-> SumSeq(Column(grp(i), "flight_hours")),
                   maintenance_events |-> SumSeq(Column(grp(i), "maintenance_flag")),
                   avg_downtime_days |->
                       <<SumSeq(Column(grp(i), "downtime_days")), Len(grp(i))>>]]
        h == minmax_series([i \in 1..Len(agg) |-> Frac(agg[i].total_flight_hours)])
        m == minmax_series([i \in 1..Len(agg) |-> Frac(agg[i].maintenance_events)])
        dd == minmax_series([i \in 1..Len(agg) |-> agg[i].avg_downtime_days])
        scored == [i \in 1..Len(agg) |->
                     [aircraft_id |-> agg[i].aircraft_id,
                      total_flight_hours |-> agg[i].total_flight_hours,
                      maintenance_events |-> agg[i].maintenance_events,
                      avg_downtime_days |-> agg[i].avg_downtime_days,
                      risk_score |-> RiskScore(h[i], m[i], dd[i])]]
    IN SortDesc(scored, "risk_score")

MaintenanceRisk ==
    /\ pc = "risk"
    /\ risk_df' = IF RISK_COLS \subseteq columns THEN Some(RiskTable(df))
                  ELSE risk_df
    /\ pc' = "schedule"
    /\ UNCHANGED <<csv, columns, df, min_d, max_d, date_range, aircrafts,
                   selected_aircraft, pilots, selected_pilots, weather,
                   selected_weather, usage_aircraft, usage_time, weather_pct,
                   schedule_df, counts, row, label>>

-----------------------------------------------------------------------------
(* PILOT SCHEDULING *)

SCHED_COLS == {"pilot_id", "pilot_duty_status", "aircraft_id", "flight_status"}

\* the thresholds 0.7 and 0.4, in hundredths
HIGH_RISK == 70
CAUTION == 40

\* x >= t on a score that may be NaN: a comparison with NaN is False
ScoreGe(x, t) == x # NaNScore /\ x >= t
ScoreGt(x, t) == x # NaNScore /\ x > t

\* decision with > in place of >=
decisionStrict(r) ==
    IF r.pilot_duty_status # "Available" THEN "Do Not Assign"
    ELSE IF r.flight_status # "Fly" THEN "Do Not Assign"
    ELSE IF ScoreGt(r.risk_score, HIGH_RISK) THEN "Avoid (High Risk)"
    ELSE IF ScoreGt(r.risk_score, CAUTION) THEN "Assign with Caution"
    ELSE "Assign"

\* decision(row)
decision(r) ==
    IF r.pilot_duty_status # "Available" THEN "Do Not Assign"
    ELSE IF r.flight_status # "Fly" THEN "Do Not Assign"
    ELSE IF ScoreGe(r.risk_score, HIGH_RISK) THEN "Avoid (High Risk)"
    ELSE IF ScoreGe(r.risk_score, CAUTION) THEN "Assign with Caution"
    ELSE "Assign"

\* one row of the merged frame
Joined(r, score, rec) ==
    [flight_date |-> r.flight_date, aircraft_id |-> r.aircraft_id,
     pilot_id |-> r.pilot_id, weather_condition |-> r.weather_condition,
     flight_status |-> r.flight_status, flight_hours |-> r.flight_hours,
     maintenance_flag |-> r.maintenance_flag, downtime_days |-> r.downtime_days,
     pilot_duty_status |-> r.pilot_duty_status, time_of_day |-> r.time_of_day,
     risk_score |-> score, recommendation |-> rec]

RECURSIVE Merge(_, _)
\* df.merge(risk_df[["aircraft_id", "risk_score"]], on="aircraft_id",
\* how="left"): one output row per match, one with NaN when there is none
Merge(d, t) ==
    IF d = <<>> THEN <<>>
    ELSE LET hits == SelectSeq(t, LAMBDA e : e.aircraft_id = d[1].aircraft_id)
         IN (IF hits = <<>> THEN << Joined(d[1], NaNScore, NaN) >>
             ELSE [j \in 1..Len(hits) |-> Joined(d[1], hits[j].risk_score, NaN)])
            \o Merge(Tail(d), t)

\* schedule_df.apply(decision, axis=1) on a frame with rows
Apply(s) == [i \in 1..Len(s) |-> [s[i] EXCEPT !.recommendation = decision(s[i])]]

RECURSIVE Unique(_)
\* the distinct values of a sequence, in order of first appearance
Unique(s) ==
    IF s = <<>> THEN <<>>
    ELSE LET u == Unique(SubSeq(s, 1, Len(s) - 1))
         IN IF s[Len(s)] \in Range(u) THEN u ELSE Append(u, s[Len(s)])

\* schedule_df["recommendation"].value_counts()
ValueCounts(s) ==
    LET labels == Unique(Column(s, "recommendation"))
    IN SortDesc([i \in 1..Len(labels) |->
                   [recommendation |-> labels[i],
                    count |-> Len(SelectSeq(s, LAMBDA r :
                                      r.recommendation = labels[i]))]],
                "count")

\* On a frame without rows DataFrame.apply(axis=1) does not call decision on
\* any row. Depending on the installed pandas it returns an empty Series,
\* and the assignment and value_counts go through, or a copy of the empty
\* frame, and assigning that frame to the one column "recommendation"
\* raises ValueError. The script pins no pandas version.
PilotScheduling ==
    /\ pc = "schedule"
    /\ IF risk_df # None /\ SCHED_COLS \subseteq columns
       THEN LET merged == Merge(df, risk_df[1])
            IN IF merged # <<>>
               THEN /\ schedule_df' = Some(Apply(merged))
                    /\ counts' = Some(ValueCounts(Apply(merged)))
                    /\ pc' = "done"
               ELSE \/ /\ schedule_df' = Some(<<>>)
                       /\ counts' = Some(<<>>)
                       /\ pc' = "done"
                    \/ /\ schedule_df' = Some(<<>>)
                       /\ counts' = counts
                       /\ pc' = "error"
       ELSE /\ pc' = "done"
            /\ UNCHANGED <<schedule_df, counts>>
    /\ UNCHANGED <<csv, columns, df, min_d, max_d, date_range, aircrafts,
                   selected_aircraft, pilots, selected_pilots, weather,
                   selected_weather, usage_aircraft, usage_time, weather_pct,
                   risk_df, row, label>>

\* one call decision(row)
Decide ==
    /\ pc = "call"
    /\ label' = decision(row)
    /\ pc' = "returned"
    /\ UNCHANGED <<csv, columns, df, min_d, max_d, date_range, aircrafts,
                   selected_aircraft, pilots, selected_pilots, weather,
                   selected_weather, usage_aircraft, usage_time, weather_pct,
                   risk_df, schedule_df, counts, row>>

-----------------------------------------------------------------------------
(* The files a run starts from *)

BaseRow ==
    [flight_date |-> 0, aircraft_id |-> "A1", pilot_id |-> "P1",
     weather_condition |-> "Clear", flight_status |-> "Fly", flight_hours |-> 1,
     maintenance_flag |-> 0, downtime_days |-> 0,
     pilot_duty_status |-> "Available", time_of_day |-> "Morning"]

SeqsUpTo(S, n) == UNION {[1..k -> S] : k \in 0..n}

Repeat(r, n) == [i \in 1..n |-> r]

\* files with any subset of the required columns
ColumnFiles ==
    {[columns |-> c, rows |-> r] : c \in SUBSET REQUIRED,
                                   r \in {<<>>, <<BaseRow>>}}

\* complete files whose rows differ in the four filtered columns
FilterRows ==
    {[BaseRow EXCEPT !.flight_date = t, !.aircraft_id = a, !.pilot_id = p,
                     !.weather_condition = w] :
        t \in {BadDate} \cup (0..MaxTs), a \in {NaN, "A1", "A2"},
        p \in {NaN, "P1"}, w \in {NaN, "Clear"}}

FilterFiles ==
    {[columns |-> REQUIRED, rows |-> r] : r \in SeqsUpTo(FilterRows, MaxRows)}

\* complete files whose rows differ in aircraft and metrics; the aircraft
\* are named in order of first appearance
AircraftNo(a) == CHOOSE n \in 1..3 : <<"A1", "A2", "A3">>[n] = a

RiskRows ==
    {[BaseRow EXCEPT !.aircraft_id = a, !.flight_hours = h,
                     !.maintenance_flag = m, !.downtime_days = d] :
        a \in {"A1", "A2", "A3"}, h \in 0..MaxHours, m \in {0, 1},
        d \in 0..MaxDowntime}

InOrderOfAppearance(r) ==
    \A i \in 1..Len(r) :
        \/ AircraftNo(r[i].aircraft_id) = 1
        \/ \E j \in 1..(i - 1) :
              AircraftNo(r[j].aircraft_id) = AircraftNo(r[i].aircraft_id) - 1

RiskFiles ==
    {[columns |-> REQUIRED, rows |-> r] :
        r \in {q \in SeqsUpTo(RiskRows, MaxRiskRows) : InOrderOfAppearance(q)}}

\* complete files whose rows differ in aircraft, hours, maintenance, duty
\* and status
SchedRows ==
    {[BaseRow EXCEPT !.aircraft_id = a, !.flight_hours = h,
                     !.maintenance_flag = m, !.pilot_duty_status = u,
                     !.flight_status = f] :
        a \in {NaN, "A1", "A2"}, h \in 0..MaxHours, m \in {0, 1},
        u \in {"Available", "Unavailable"}, f \in {"Fly", "Delayed"}}

SchedFiles ==
    {[columns |-> REQUIRED, rows |-> r] : r \in SeqsUpTo(SchedRows, MaxSchedRows)}

\* complete files given by the number of rows of each (weather, status) cell
WeatherFiles ==
    {[columns |-> REQUIRED,
      rows |-> Repeat([BaseRow EXCEPT !.flight_status = "Fly"], c[1])
               \o Repeat([BaseRow EXCEPT !.flight_status = "Delayed"], c[2])
               \o Repeat([BaseRow EXCEPT !.flight_status = "No-Fly"], c[3])
               \o Repeat([BaseRow EXCEPT !.weather_condition = "Rain"], c[4])] :
        c \in [1..4 -> 0..MaxCount]}

\* the arguments of decision()
DecisionRows ==
    [pilot_duty_status : {"Available", "Unavailable", NaN},
     flight_status : {"Fly", "Delayed", "No-Fly", NaN},
     risk_score : {NaNScore} \cup (0..MaxScore)]

InitRun(files) ==
    /\ csv \in {Some(f) : f \in files} \cup {None}
    /\ pc = "load"
    /\ columns = {}
    /\ df = <<>>
    /\ min_d = NaT
    /\ max_d = NaT
    /\ date_range = <<>>
    /\ aircrafts = <<>>
    /\ selected_aircraft = {}
    /\ pilots = <<>>
    /\ selected_pilots = {}
    /\ weather = <<>>
    /\ selected_weather = {}
    /\ usage_aircraft = None
    /\ usage_time = None
    /\ weather_pct = None
    /\ risk_df = None
    /\ schedule_df = None
    /\ counts = None
    /\ row = [pilot_duty_status |-> NaN, flight_status |-> NaN,
              risk_score |-> NaNScore]
    /\ label = NaN

Run ==
    \/ LoadData
    \/ Filters
    \/ AircraftUsage
    \/ TrainingPeakTimes
    \/ WeatherImpact
    \/ MaintenanceRisk
    \/ PilotScheduling

Init == InitRun(ColumnFiles)
Next == Run
Spec == Init /\ [][Next]_vars

InitFilter == InitRun(FilterFiles)
SpecFilter == InitFilter /\ [][Run]_vars

InitRisk == InitRun(RiskFiles)
SpecRisk == InitRisk /\ [][Run]_vars

InitSched == InitRun(SchedFiles)
SpecSched == InitSched /\ [][Run]_vars

InitWeather == InitRun(WeatherFiles)
SpecWeather == InitWeather /\ [][Run]_vars

InitDecision ==
    /\ csv = None
    /\ pc = "call"
    /\ columns = {}
    /\ df = <<>>
    /\ min_d = NaT
    /\ max_d = NaT
    /\ date_range = <<>>
    /\ aircrafts = <<>>
    /\ selected_aircraft = {}
    /\ pilots = <<>>
    /\ selected_pilots = {}
    /\ weather = <<>>
    /\ selected_weather = {}
    /\ usage_aircraft = None
    /\ usage_time = None
    /\ weather_pct = None
    /\ risk_df = None
    /\ schedule_df = None
    /\ counts = None
    /\ row \in DecisionRows
    /\ label = NaN

NextDecision == Decide
SpecDecision == InitDecision /\ [][NextDecision]_vars

-----------------------------------------------------------------------------
(* Properties *)

Ran == pc \in {"done", "error"}
Filtered == pc \notin {"load", "filters", "stopped", "call", "returned"}

\* C1 as stated: when a required column is missing no section is computed.
C1_HaltsBeforeAnyAggregation ==
    (pc # "load" /\ csv # None /\ ~(REQUIRED \subseteq columns)) =>
        /\ usage_aircraft = None
        /\ usage_time = None
        /\ weather_pct = None
        /\ risk_df = None
        /\ schedule_df = None

\* C1, amended: a section is computed only when the columns it reads are all
\* present, and the usage, peak-time, weather and risk sections are computed
\* whenever their own columns are present, whatever else is missing.
C1_SectionsCheckTheirOwnColumns ==
    /\ usage_aircraft # None => {"aircraft_id", "flight_hours"} \subseteq columns
    /\ usage_time # None => {"time_of_day", "flight_hours"} \subseteq columns
    /\ weather_pct # None =>
           {"weather_condition", "flight_status"} \subseteq columns
    /\ risk_df # None =>
           {"aircraft_id", "flight_hours", "maintenance_flag", "downtime_days"}
               \subseteq columns
    /\ schedule_df # None =>
           /\ risk_df # None
           /\ {"pilot_id", "pilot_duty_status", "aircraft_id", "flight_status"}
                  \subseteq columns
    /\ Ran =>
           /\ {"aircraft_id", "flight_hours"} \subseteq columns
                  => usage_aircraft # None
           /\ {"time_of_day", "flight_hours"} \subseteq columns
                  => usage_time # None
           /\ {"weather_condition", "flight_status"} \subseteq columns
                  => weather_pct # None
           /\ {"aircraft_id", "flight_hours", "maintenance_flag",
               "downtime_days"} \subseteq columns => risk_df # None

\* a run on a file without time_of_day that still computed usage by aircraft,
\* the weather table, the risk table and the recommendations
C1_Witness ==
    /\ pc = "done"
    /\ columns = REQUIRED \ {"time_of_day"}
    /\ usage_aircraft # None
    /\ usage_time = None
    /\ weather_pct # None
    /\ risk_df # None
    /\ counts # None
    /\ df # <<>>

\* C2: the label decision() returns is the first match of the ordered rule,
\* with both thresholds inclusive.
C2_DecisionIsFirstMatch ==
    pc = "returned" =>
        LET avail == row.pilot_duty_status = "Available"
            fly == row.flight_status = "Fly"
            known == row.risk_score # NaNScore
        IN /\ ~avail => label = "Do Not Assign"
           /\ (avail /\ ~fly) => label = "Do Not Assign"
           /\ (avail /\ fly /\ known /\ row.risk_score >= 70)
                  => label = "Avoid (High Risk)"
           /\ (avail /\ fly /\ known /\ row.risk_score >= 40
                  /\ row.risk_score < 70) => label = "Assign with Caution"
           /\ (avail /\ fly /\ (~known \/ row.risk_score < 40))
                  => label = "Assign"

\* decision() has returned for an available pilot, a flyable flight and a
\* score of exactly 0.40
C2_Witness ==
    /\ pc = "returned"
    /\ row.pilot_duty_status = "Available"
    /\ row.flight_status = "Fly"
    /\ row.risk_score = 40
    /\ label = "Assign with Caution"

InUnit(x) == x[2] > 0 /\ x[1] >= 0 /\ x[1] <= x[2]

\* C3: every risk_score is in [0, 1] and is the weighted sum of the three
\* normalized components, each in [0, 1], rounded to two decimals.
C3_RiskScoreInUnitInterval ==
    risk_df # None =>
        LET t == risk_df[1]
            h == minmax_series([i \in 1..Len(t) |-> Frac(t[i].total_flight_hours)])
            m == minmax_series([i \in 1..Len(t) |-> Frac(t[i].maintenance_events)])
            d == minmax_series([i \in 1..Len(t) |-> t[i].avg_downtime_days])
        IN \A i \in 1..Len(t) :
              LET den == h[i][2] * m[i][2] * d[i][2]
                  num == 50 * h[i][1] * m[i][2] * d[i][2]
                         + 30 * m[i][1] * h[i][2] * d[i][2]
                         + 20 * d[i][1] * h[i][2] * m[i][2]
                  off == t[i].risk_score * den - num
              IN /\ InUnit(h[i]) /\ InUnit(m[i]) /\ InUnit(d[i])
                 /\ t[i].risk_score >= 0
                 /\ t[i].risk_score <= 100
                 /\ 2 * off <= den
                 /\ 2 * off >= 0 - den

\* a risk table of three aircraft holding the scores 1.0, 0.0 and one that
\* needed rounding
C3_Witness ==
    /\ risk_df # None
    /\ Len(risk_df[1]) = 3
    /\ risk_df[1][1].risk_score = 100
    /\ risk_df[1][3].risk_score = 0
    /\ risk_df[1][2].risk_score \in 1..99
    /\ risk_df[1][2].avg_downtime_days[1] = 1

Const(t, f) == \A i, j \in 1..Len(t) : t[i][f] = t[j][f]

\* C4: a metric with one value over all aircraft normalizes to 0 for every
\* aircraft and adds nothing to the score; one aircraft alone scores 0.
C4_ConstantMetricNormalizesToZero ==
    risk_df # None =>
        LET t == risk_df[1]
            h == minmax_series([i \in 1..Len(t) |-> Frac(t[i].total_flight_hours)])
            m == minmax_series([i \in 1..Len(t) |-> Frac(t[i].maintenance_events)])
            d == minmax_series([i \in 1..Len(t) |-> t[i].avg_downtime_days])
            dconst == \A i, j \in 1..Len(t) :
                         FEq(t[i].avg_downtime_days, t[j].avg_downtime_days)
        IN /\ Const(t, "total_flight_hours") =>
                 \A i \in 1..Len(t) : h[i][1] = 0 /\ t[i].risk_score <= 50
           /\ Const(t, "maintenance_events") =>
                 \A i \in 1..Len(t) : m[i][1] = 0 /\ t[i].risk_score <= 70
           /\ dconst =>
                 \A i \in 1..Len(t) : d[i][1] = 0 /\ t[i].risk_score <= 80
           /\ Len(t) = 1 => t[1].risk_score = 0

\* two aircraft with the same positive total hours and different
\* maintenance and downtime
C4_Witness ==
    /\ risk_df # None
    /\ Len(risk_df[1]) = 2
    /\ risk_df[1][1].total_flight_hours = risk_df[1][2].total_flight_hours
    /\ risk_df[1][1].total_flight_hours > 0
    /\ risk_df[1][1].maintenance_events # risk_df[1][2].maintenance_events
    /\ risk_df[1][1].risk_score = 50
    /\ risk_df[1][2].risk_score = 0

Loaded == csv[1].rows

\* every filter widget left at the value it was offered with
DefaultSelection ==
    /\ date_range = IF min_d # NaT THEN <<min_d, max_d>> ELSE <<>>
    /\ selected_aircraft = Range(aircrafts)
    /\ selected_pilots = Range(pilots)
    /\ selected_weather = Range(weather)

\* C5 as stated: filtering never adds records, and with every filter at its
\* default it keeps every loaded record.
C5_DefaultKeepsEveryRecord ==
    Filtered =>
        /\ Len(df) <= Len(Loaded)
        /\ DefaultSelection => Len(df) = Len(Loaded)

\* a loaded record the default filters keep: no null in a filtered column
NoNullFilterValue(r) ==
    /\ r.aircraft_id # NaN
    /\ r.pilot_id # NaN
    /\ r.weather_condition # NaN
    /\ \/ r.flight_date >= 0
       \/ \A i \in 1..Len(Loaded) : Loaded[i].flight_date < 0

\* C5, amended: filtering never adds records, and with every filter at its
\* default it keeps exactly the loaded records that have no null in a
\* filtered column (a null flight_date counts only when some record has a
\* date), so all of them when there is no such null.
C5_DefaultKeepsRecordsWithoutNulls ==
    Filtered =>
        /\ Len(df) <= Len(Loaded)
        /\ DefaultSelection => df = SelectSeq(ReadCsv(csv[1]), NoNullFilterValue)

\* default filters on a file of two records, one of them with a null
C5_Witness ==
    /\ Filtered
    /\ DefaultSelection
    /\ Len(Loaded) = 2
    /\ Len(df) = 1

\* C6: running the filters again, with the same selections, on the filtered
\* records leaves them as they are.
C6_FilterIdempotent ==
    Filtered =>
        ApplyFilters(columns, df, date_range, selected_aircraft,
                     selected_pilots, selected_weather) = df

\* a selection that dropped one of two records: a date interval that
\* excludes one, with a record left
C6_Witness ==
    /\ Filtered
    /\ Len(date_range) = 2
    /\ Len(Loaded) = 2
    /\ Len(df) = 1
    /\ \E i \in 1..2 : /\ Loaded[i].flight_date >= 0
                        /\ DateOf(Loaded[i].flight_date) > date_range[2]

PercentSum(t, w) ==
    SumSeq(Column(SelectSeq(t, LAMBDA u : u.weather_condition = w), "percent"))

\* C8: within each weather condition present, every percentage is the
\* count over that condition's record count, times 100, rounded to one
\* decimal, and the percentages sum to 100.0 within 0.1.
C8_PercentagesSumTo100 ==
    weather_pct # None =>
        LET t == weather_pct[1]
            total(w) == Len(SelectSeq(df, LAMBDA r : r.weather_condition = w))
        IN /\ \A i \in 1..Len(df) :
                 \E k \in 1..Len(t) :
                    t[k].weather_condition = df[i].weather_condition
           /\ \A k \in 1..Len(t) :
                 LET n == total(t[k].weather_condition)
                     off == t[k].percent * n - t[k].count * 1000
                 IN /\ 2 * off <= n
                    /\ 2 * off >= 0 - n
                    /\ PercentSum(t, t[k].weather_condition) >= 999
                    /\ PercentSum(t, t[k].weather_condition) <= 1001

\* three statuses under "Clear" whose percentages sum to 100.1, next to
\* another weather condition
C8_Witness ==
    /\ weather_pct # None
    /\ PercentSum(weather_pct[1], "Clear") = 1001
    /\ PercentSum(weather_pct[1], "Rain") = 1000

\* C9: the join keeps every filtered record exactly once, because the risk
\* table has one entry per distinct aircraft_id: as many labelled rows as
\* filtered records, and label counts that sum to that number.
C9_OneLabelPerRecord ==
    /\ risk_df # None =>
           /\ \A i, j \in 1..Len(risk_df[1]) :
                  risk_df[1][i].aircraft_id = risk_df[1][j].aircraft_id => i = j
           /\ {risk_df[1][i].aircraft_id : i \in 1..Len(risk_df[1])}
                  = {df[i].aircraft_id : i \in 1..Len(df)}
    /\ schedule_df # None => Len(schedule_df[1]) = Len(df)
    /\ counts # None =>
           /\ SumSeq(Column(counts[1], "count")) = Len(df)
           /\ \A i \in 1..Len(schedule_df[1]) :
                  schedule_df[1][i].recommendation \in
                      {"Assign", "Assign with Caution", "Avoid (High Risk)",
                       "Do Not Assign"}

\* two records of the same aircraft, labelled differently
C9_Witness ==
    /\ counts # None
    /\ Len(df) = 2
    /\ Len(risk_df[1]) = 1
    /\ Len(counts[1]) = 2

\* C10: every filtered record finds its aircraft in the risk table, so its
\* joined risk_score is not null, and "Assign" is given only to an available
\* pilot on a flyable flight whose aircraft scores below 0.4.
C10_AssignNeverFromMissingScore ==
    schedule_df # None =>
        \A i \in 1..Len(schedule_df[1]) :
            LET r == schedule_df[1][i]
            IN /\ r.risk_score # NaNScore
               /\ \E k \in 1..Len(risk_df[1]) :
                     /\ risk_df[1][k].aircraft_id = r.aircraft_id
                     /\ risk_df[1][k].risk_score = r.risk_score
               /\ r.recommendation = "Assign" =>
                     /\ r.pilot_duty_status = "Available"
                     /\ r.flight_status = "Fly"
                     /\ r.risk_score < 40

\* a file with a record without aircraft_id, which the filter dropped, and
\* a record that was labelled "Assign"
C10_Witness ==
    /\ counts # None
    /\ \E i \in 1..Len(Loaded) : Loaded[i].aircraft_id = NaN
    /\ \E i \in 1..Len(schedule_df[1]) :
          schedule_df[1][i].recommendation = "Assign"

====
